---------------------------- MODULE Spec2Model ----------------------------
(***************************************************************************)
(* Gesture classification, direction tracking and the debounced dispatch   *)
(* loop of the smart soldering station (src/src/gestures.py,               *)
(* src/src/demo.py, src/src/robot_interface.py).                           *)
(*                                                                         *)
(* Units.  Landmark coordinates are integers counting hundredths of the    *)
(* normalised frame (0.05 is 5).  Timestamps are integers counting tenths  *)
(* of a second (0.5 s is 5).  Arithmetic is that of the real numbers: a    *)
(* comparison d < 0.05 of a Euclidean distance is made on the squares.     *)
(* A landmark list is a sequence, Python's landmarks[i] is h[i + 1].       *)
(* Python's None is the string "none" for a gesture or direction and the   *)
(* empty tuple for the stored hand center.                                 *)
(***************************************************************************)
EXTENDS Integers, Sequences, FiniteSets

VARIABLES
  prev_hand_center,   \* gestures._prev_hand_center: <<>> or a center
  last_gesture,       \* demo.main: last_gesture
  last_sent,          \* demo.main: last_sent
  now,                \* time.time() as read by the last frame
  running,            \* the while loop of demo.main has not ended
  cfg,                \* the gesture -> command table of the configuration
  frames,             \* history: one record per processed frame
  hand,               \* pure-function specification: the landmark list
  result,             \* pure-function specification: what the functions returned
  calls               \* tracker specification: the calls made, latest last

vars ==
  <<prev_hand_center, last_gesture, last_sent, now, running, cfg, frames,
    hand, result, calls>>

loopVars == <<last_gesture, last_sent, now, running, cfg, frames>>
pureVars == <<hand, result>>

(***************************************************************************)
(* Program constants                                                       *)
(***************************************************************************)
NumLandmarks      == 21
PinchMinLen       == 9
PinchThresh       == 5
FistThresh        == 8
OpenThresh        == 12
PointThresh       == 6
MovementThreshold == 5
ThumbTipDist      == 15
TipMargin         == 5
\* angle_threshold = 140 degrees: cos(140)^2 = 0.586824..., to four decimals
Cos2Num           == 5868
Cos2Den           == 10000
MinInterval       == 5

None == "none"

(***************************************************************************)
(* Geometry primitives                                                     *)
(***************************************************************************)
LM(h, i) == h[i + 1]

Sq(n) == n * n

Abs(n) == IF n < 0 THEN -n ELSE n

\* largest r in lo..hi with r * r <= n
RECURSIVE SqrtBetween(_, _, _)
SqrtBetween(n, lo, hi) ==
  IF lo >= hi THEN lo
  ELSE LET mid == (lo + hi + 1) \div 2
       IN  IF mid * mid <= n THEN SqrtBetween(n, mid, hi)
           ELSE SqrtBetween(n, lo, mid - 1)

ISqrt(n) == SqrtBetween(n, 0, 46340)

\* math.hypot(dx, dy) squared: the planar distance, z is not read
Dist2(a, b) == Sq(a[1] - b[1]) + Sq(a[2] - b[2])

\* the planar distance in units of 0.0001, rounded down; used where the
\* code sums distances
_dist(a, b) == ISqrt(Dist2(a, b) * 10000)

\* _angle_between(a, b, c) > angle_threshold.  The angle at b is 180 when
\* either vector is null, and exceeds 140 degrees exactly when its cosine is
\* below cos(140) < 0.
AngleAboveThreshold(a, b, c) ==
  LET v1  == <<a[1] - b[1], a[2] - b[2], a[3] - b[3]>>
      v2  == <<c[1] - b[1], c[2] - b[2], c[3] - b[3]>>
      dot == v1[1] * v2[1] + v1[2] * v2[2] + v1[3] * v2[3]
      n1  == Sq(v1[1]) + Sq(v1[2]) + Sq(v1[3])
      n2  == Sq(v2[1]) + Sq(v2[2]) + Sq(v2[3])
  IN  IF n1 = 0 \/ n2 = 0 THEN TRUE
      ELSE dot < 0 /\ Sq(dot) * Cos2Den > Cos2Num * n1 * n2

(***************************************************************************)
(* Static shape predicates                                                 *)
(***************************************************************************)
\* mutant: the distance thumb tip - index tip taken in three dimensions
is_pinch_3d(landmarks) ==
  IF Len(landmarks) = 0 \/ Len(landmarks) < PinchMinLen THEN FALSE
  ELSE Dist2(LM(landmarks, 4), LM(landmarks, 8))
         + Sq(LM(landmarks, 4)[3] - LM(landmarks, 8)[3]) < Sq(PinchThresh)

is_pinch(landmarks) ==
  IF Len(landmarks) = 0 \/ Len(landmarks) < PinchMinLen THEN FALSE
  ELSE Dist2(LM(landmarks, 4), LM(landmarks, 8)) < Sq(PinchThresh)

\* sum of the planar distances wrist -> landmarks[i], i in tips
RECURSIVE TipDistSum(_, _)
TipDistSum(landmarks, tips) ==
  IF tips = <<>> THEN 0
  ELSE _dist(LM(landmarks, 0), LM(landmarks, Head(tips)))
       + TipDistSum(landmarks, Tail(tips))

is_fist(landmarks) ==
  IF Len(landmarks) = 0 \/ Len(landmarks) < NumLandmarks THEN FALSE
  ELSE TipDistSum(landmarks, <<4, 8, 12, 16, 20>>) < 5 * FistThresh * 100

is_open_hand(landmarks) ==
  IF Len(landmarks) = 0 \/ Len(landmarks) < NumLandmarks THEN FALSE
  ELSE TipDistSum(landmarks, <<4, 8, 12, 16, 20>>) > 5 * OpenThresh * 100

is_pointing_index(landmarks) ==
  IF Len(landmarks) = 0 \/ Len(landmarks) < NumLandmarks THEN FALSE
  ELSE 4 * _dist(LM(landmarks, 0), LM(landmarks, 8))
         > TipDistSum(landmarks, <<4, 12, 16, 20>>) + 4 * PointThresh * 100

ThumbExtended(landmarks) ==
  \/ AngleAboveThreshold(LM(landmarks, 2), LM(landmarks, 3), LM(landmarks, 4))
  \/ Dist2(LM(landmarks, 0), LM(landmarks, 4)) > Sq(ThumbTipDist)

\* mutant: the fingertip must be above the MCP, with no margin
FingerExtendedNoMargin(landmarks, mcp_i, pip_i, tip_i) ==
  /\ AngleAboveThreshold(LM(landmarks, mcp_i), LM(landmarks, pip_i),
                         LM(landmarks, tip_i))
  /\ LM(landmarks, tip_i)[2] < LM(landmarks, mcp_i)[2]

FingerExtended(landmarks, mcp_i, pip_i, tip_i) ==
  /\ AngleAboveThreshold(LM(landmarks, mcp_i), LM(landmarks, pip_i),
                    LM(landmarks, tip_i))
  /\ LM(landmarks, tip_i)[2] < LM(landmarks, mcp_i)[2] + TipMargin

finger_joints == <<<<5, 6, 8>>, <<9, 10, 12>>, <<13, 14, 16>>, <<17, 18, 20>>>>

\* mutant: the thumb is counted once for each of its two tests
CountThumbTwice(landmarks) ==
  IF Len(landmarks) = 0 \/ Len(landmarks) < NumLandmarks THEN 0
  ELSE (IF AngleAboveThreshold(LM(landmarks, 2), LM(landmarks, 3),
                               LM(landmarks, 4)) THEN 1 ELSE 0)
       + (IF Dist2(LM(landmarks, 0), LM(landmarks, 4)) > Sq(ThumbTipDist)
          THEN 1 ELSE 0)
       + Cardinality({k \in 1..4 :
            FingerExtended(landmarks, finger_joints[k][1],
                           finger_joints[k][2], finger_joints[k][3])})

count_extended_fingers(landmarks) ==
  IF Len(landmarks) = 0 \/ Len(landmarks) < NumLandmarks THEN 0
  ELSE (IF ThumbExtended(landmarks) THEN 1 ELSE 0)
       + Cardinality({k \in 1..4 :
            FingerExtended(landmarks, finger_joints[k][1],
                           finger_joints[k][2], finger_joints[k][3])})

(***************************************************************************)
(* Gesture classifier.  The handedness argument is passed through to       *)
(* count_extended_fingers, which never reads it.                           *)
(***************************************************************************)
detect_gesture_with_handedness(landmarks) ==
  IF is_pinch(landmarks) THEN "pinch"
  ELSE LET n == count_extended_fingers(landmarks)
       IN  CASE n = 0 -> "fist"
             [] n = 1 -> "one"
             [] n = 2 -> "two"
             [] n = 3 -> "three"
             [] n = 4 -> "four"
             [] n = 5 -> "five"
             [] OTHER -> None

(***************************************************************************)
(* Direction tracker.  A center is <<sx, sy, n>>: the point (sx/n, sy/n),  *)
(* the sums of the x and y coordinates over the n landmarks.  Differences  *)
(* of two centers are compared after multiplying by both denominators.     *)
(***************************************************************************)
RECURSIVE SumCoord(_, _)
SumCoord(landmarks, c) ==
  IF landmarks = <<>> THEN 0
  ELSE Head(landmarks)[c] + SumCoord(Tail(landmarks), c)

get_hand_center(landmarks) ==
  IF Len(landmarks) = 0 THEN <<0, 0, 1>>
  ELSE <<SumCoord(landmarks, 1), SumCoord(landmarks, 2), Len(landmarks)>>

\* mutant: a tie |dx| = |dy| takes the horizontal branch
DirectionTieHorizontal(dx, dy, den) ==
  IF Sq(dx) + Sq(dy) < Sq(MovementThreshold * den) THEN None
  ELSE IF Abs(dx) >= Abs(dy)
       THEN (IF dx > 0 THEN "right" ELSE "left")
       ELSE (IF dy > 0 THEN "down" ELSE "up")

\* the direction of the displacement (dx, dy) / den
Direction(dx, dy, den) ==
  IF Sq(dx) + Sq(dy) < Sq(MovementThreshold * den) THEN None
  ELSE IF Abs(dx) > Abs(dy)
       THEN (IF dx > 0 THEN "right" ELSE "left")
       ELSE (IF dy > 0 THEN "down" ELSE "up")

\* mutant: the first observation is not stored
DetectFirstNotStored(prev, landmarks) ==
  LET current_center == get_hand_center(landmarks)
  IN  IF prev = <<>> THEN [ret |-> None, prev |-> <<>>]
      ELSE [ret |-> Direction(
                      current_center[1] * prev[3] - prev[1] * current_center[3],
                      current_center[2] * prev[3] - prev[2] * current_center[3],
                      prev[3] * current_center[3]),
            prev |-> current_center]

\* mutant: the stored center is not advanced by a later observation
DetectPrevNotAdvanced(prev, landmarks) ==
  LET current_center == get_hand_center(landmarks)
  IN  IF prev = <<>> THEN [ret |-> None, prev |-> current_center]
      ELSE [ret |-> Direction(
                      current_center[1] * prev[3] - prev[1] * current_center[3],
                      current_center[2] * prev[3] - prev[2] * current_center[3],
                      prev[3] * current_center[3]),
            prev |-> prev]

\* mutant: the stored center is advanced only when a direction is returned
DetectStoresOnMoveOnly(prev, landmarks) ==
  LET current_center == get_hand_center(landmarks)
  IN  IF prev = <<>> THEN [ret |-> None, prev |-> current_center]
      ELSE LET den == prev[3] * current_center[3]
               dx  == current_center[1] * prev[3] - prev[1] * current_center[3]
               dy  == current_center[2] * prev[3] - prev[2] * current_center[3]
           IN  [ret  |-> Direction(dx, dy, den),
                prev |-> IF Direction(dx, dy, den) = None THEN prev
                         ELSE current_center]

\* detect_movement_direction with _prev_hand_center = prev: the value
\* returned and the value _prev_hand_center is left with
detect_movement_direction(prev, landmarks) ==
  LET current_center == get_hand_center(landmarks)
  IN  IF prev = <<>> THEN [ret |-> None, prev |-> current_center]
      ELSE LET den == prev[3] * current_center[3]
               dx  == current_center[1] * prev[3] - prev[1] * current_center[3]
               dy  == current_center[2] * prev[3] - prev[2] * current_center[3]
           IN  [ret |-> Direction(dx, dy, den), prev |-> current_center]

\* reset_movement_tracking: the value _prev_hand_center is left with
reset_movement_tracking == <<>>

(***************************************************************************)
(* detect_gesture_with_direction with _prev_hand_center = prev: the dict   *)
(* returned, and under prev the value _prev_hand_center is left with.      *)
(***************************************************************************)
\* mutant: the tracker is run for the finger-count gestures only
DetectGestureTrackCountsOnly(prev, landmarks) ==
  LET gesture == detect_gesture_with_handedness(landmarks)
      moved   == IF gesture \in {"pinch", "fist"}
                 THEN [ret |-> None, prev |-> prev]
                 ELSE detect_movement_direction(prev, landmarks)
  IN  [gesture   |-> gesture,
       direction |-> moved.ret,
       combined  |-> IF gesture # None /\ moved.ret # None
                     THEN gesture \o "_" \o moved.ret
                     ELSE gesture,
       prev      |-> moved.prev]

detect_gesture_with_direction(prev, landmarks) ==
  LET gesture == detect_gesture_with_handedness(landmarks)
      moved   == detect_movement_direction(prev, landmarks)
  IN  [gesture   |-> gesture,
       direction |-> moved.ret,
       combined  |-> IF gesture # None /\ moved.ret # None
                     THEN gesture \o "_" \o moved.ret
                     ELSE gesture,
       prev      |-> moved.prev]

(***************************************************************************)
(* Landmark lists the specifications draw from.  A shape places the wrist  *)
(* at (0.50, 0.90); finger k has its MCP at (0.40 + 0.07 k, 0.60) and is   *)
(* "up" (straight, tip above the MCP), "curl" (folded back on itself) or   *)
(* "down" (straight, tip below the MCP).                                   *)
(***************************************************************************)
FingerCfgs == {"up", "curl", "down"}

Thumb(ext) ==
  IF ext THEN <<<<45, 85, 0>>, <<40, 80, 0>>, <<35, 72, 0>>, <<30, 64, 0>>>>
  ELSE <<<<45, 85, 0>>, <<45, 80, 0>>, <<42, 75, 0>>, <<46, 78, 0>>>>

Finger(k, c) ==
  LET x == 40 + 7 * k
  IN  CASE c = "up"   -> <<<<x, 60, 0>>, <<x, 50, 0>>, <<x, 40, 0>>, <<x, 30, 0>>>>
        [] c = "curl" -> <<<<x, 60, 0>>, <<x, 50, 0>>, <<x, 52, 0>>, <<x, 58, 0>>>>
        [] OTHER      -> <<<<x, 60, 0>>, <<x, 70, 0>>, <<x, 80, 0>>, <<x, 90, 0>>>>

Shape(ext, f) ==
  <<<<50, 90, 0>>>> \o Thumb(ext) \o Finger(0, f[1]) \o Finger(1, f[2])
    \o Finger(2, f[3]) \o Finger(3, f[4])

Shapes ==
  {Shape(ext, f) : ext \in BOOLEAN,
                   f \in FingerCfgs \X FingerCfgs \X FingerCfgs \X FingerCfgs}

Translate(h, d) ==
  [i \in 1..Len(h) |-> <<h[i][1] + d[1], h[i][2] + d[2], h[i][3]>>]

\* the thumb tip (4) moved to the index tip (8) plus d
WithThumbTipAt(h, d) ==
  [h EXCEPT ![5] = <<h[9][1] + d[1], h[9][2] + d[2], h[9][3] + d[3]>>]

PinchDeltas ==
  {<<0, 0>>, <<3, 3>>, <<3, 4>>, <<4, 3>>, <<0, -4>>, <<5, 0>>, <<6, 0>>}
    \X {0, 30}

PinchVariants ==
  {WithThumbTipAt(s, <<d[1][1], d[1][2], d[2]>>) : s \in Shapes, d \in PinchDeltas}

\* landmark lists shorter than 21
ShortHands ==
  {SubSeq(h, 1, n) :
     h \in {Shape(TRUE, <<"up", "up", "up", "up">>),
            Shape(FALSE, <<"curl", "curl", "curl", "curl">>)}
           \cup {WithThumbTipAt(Shape(TRUE, <<"up", "up", "curl", "curl">>),
                                <<d[1][1], d[1][2], d[2]>>) : d \in PinchDeltas},
     n \in 0..(NumLandmarks - 1)}

ClassifyHands == Shapes \cup PinchVariants \cup ShortHands

(***************************************************************************)
(* Values of the variables a specification does not use                    *)
(***************************************************************************)
NoResult == [done |-> FALSE]

LoopIdle ==
  /\ last_gesture = None
  /\ last_sent = 0
  /\ now = 0
  /\ running = FALSE
  /\ cfg = <<>>
  /\ frames = <<>>

PureIdle ==
  /\ hand = <<>>
  /\ result = NoResult

(***************************************************************************)
(* PureSpec: the pure functions of gestures.py applied to one landmark     *)
(* list.                                                                   *)
(***************************************************************************)
PureInit ==
  /\ hand \in ClassifyHands
  /\ result = NoResult
  /\ prev_hand_center = <<>>
  /\ calls = <<>>
  /\ LoopIdle

Classify ==
  /\ result = NoResult
  /\ result' = [done              |-> TRUE,
                is_pinch          |-> is_pinch(hand),
                is_fist           |-> is_fist(hand),
                is_open_hand      |-> is_open_hand(hand),
                is_pointing_index |-> is_pointing_index(hand),
                count             |-> count_extended_fingers(hand),
                gesture           |-> detect_gesture_with_handedness(hand)]
  /\ UNCHANGED <<hand, prev_hand_center, calls, loopVars>>

PureNext == Classify

PureSpec == PureInit /\ [][PureNext]_vars

(***************************************************************************)
(* TrackerSpec: a caller of gestures.py calls detect_movement_direction    *)
(* and reset_movement_tracking in any order, with any landmark list of     *)
(* TrackerHands.  calls keeps the last CallWindow calls.                   *)
(***************************************************************************)
TwoShape == Shape(FALSE, <<"up", "up", "curl", "curl">>)

Positions == {0, 3, 8} \X {0, 4, 8}

TrackerHands ==
  {Translate(TwoShape, p) : p \in Positions}
    \cup {<<>>, SubSeq(TwoShape, 1, PinchMinLen)}

LastCalls(cs) ==
  IF Len(cs) <= 3 THEN cs ELSE SubSeq(cs, Len(cs) - 2, Len(cs))

TrackerInit ==
  /\ prev_hand_center = <<>>
  /\ calls = <<>>
  /\ PureIdle
  /\ LoopIdle

CallDetectMovement ==
  \E h \in TrackerHands :
    \E r \in {detect_movement_direction(prev_hand_center, h)} :
        /\ prev_hand_center' = r.prev
        /\ calls' = LastCalls(Append(calls,
                      [op |-> "detect_movement_direction", landmarks |-> h,
                       before |-> prev_hand_center, ret |-> r.ret,
                       after |-> r.prev]))
        /\ UNCHANGED <<pureVars, loopVars>>

CallReset ==
  /\ prev_hand_center' = reset_movement_tracking
  /\ calls' = LastCalls(Append(calls,
                [op |-> "reset_movement_tracking", landmarks |-> <<>>,
                 before |-> prev_hand_center, ret |-> None,
                 after |-> reset_movement_tracking]))
  /\ UNCHANGED <<pureVars, loopVars>>

TrackerNext == CallDetectMovement \/ CallReset

TrackerSpec == TrackerInit /\ [][TrackerNext]_vars

(***************************************************************************)
(* GestureDirSpec: a caller of gestures.py calls                           *)
(* detect_gesture_with_direction and reset_movement_tracking in any order, *)
(* with any landmark list of GestureDirHands.  calls keeps the last three  *)
(* calls.                                                                  *)
(***************************************************************************)
FiveShape == Shape(TRUE, <<"up", "up", "up", "up">>)

FistShape == Shape(FALSE, <<"curl", "curl", "curl", "curl">>)

PinchShape == WithThumbTipAt(FiveShape, <<0, 0, 0>>)

GestureDirHands ==
  {Translate(s, p) : s \in {FiveShape, FistShape, PinchShape},
                     p \in {<<0, 0>>, <<3, 0>>, <<10, 0>>}}

CallDetectGestureWithDirection ==
  \E h \in GestureDirHands :
    \E r \in {detect_gesture_with_direction(prev_hand_center, h)} :
        /\ prev_hand_center' = r.prev
        /\ calls' = LastCalls(Append(calls,
                      [op |-> "detect_gesture_with_direction", landmarks |-> h,
                       before |-> prev_hand_center, ret |-> r.direction,
                       after |-> r.prev, gesture |-> r.gesture,
                       combined |-> r.combined]))
        /\ UNCHANGED <<pureVars, loopVars>>

GestureDirNext == CallDetectGestureWithDirection \/ CallReset

GestureDirSpec == TrackerInit /\ [][GestureDirNext]_vars

(***************************************************************************)
(* StraightenSpec: count_extended_fingers applied to a hand and to the     *)
(* same hand with the MCP, PIP and TIP landmarks of one finger replaced,   *)
(* as the tests of tests/test_gestures.py build their hands.               *)
(***************************************************************************)
\* test_count_one_finger and test_count_two_fingers: the landmark lists
Flat == [i \in 1..NumLandmarks |-> <<50, 50, 0>>]

TestOneFinger ==
  [Flat EXCEPT ![6] = <<50, 60, 0>>, ![7] = <<50, 50, 0>>, ![9] = <<50, 20, 0>>,
               ![11] = <<50, 40, 0>>, ![13] = <<50, 60, 0>>,
               ![15] = <<50, 40, 0>>, ![17] = <<50, 60, 0>>,
               ![19] = <<50, 40, 0>>, ![21] = <<50, 60, 0>>]

TestTwoFingers ==
  [Flat EXCEPT ![6] = <<50, 60, 0>>, ![7] = <<50, 50, 0>>, ![9] = <<50, 20, 0>>,
               ![10] = <<50, 60, 0>>, ![11] = <<50, 50, 0>>,
               ![13] = <<50, 20, 0>>,
               ![15] = <<50, 50, 0>>, ![17] = <<50, 70, 0>>,
               ![19] = <<50, 50, 0>>, ![21] = <<50, 70, 0>>]

\* straight configurations of a finger, as <<PIP - MCP, TIP - MCP>>: upright
\* as in the tests (180 degrees), tilted (180), bent to 153 degrees, and
\* lying flat with the tip 0.04 below the MCP (180)
StraightOffsets ==
  {<<<<0, -10>>, <<0, -40>>>>, <<<<3, -10>>, <<9, -30>>>>,
   <<<<0, -10>>, <<5, -20>>>>, <<<<10, 2>>, <<20, 4>>>>}

\* finger k (1 = index .. 4 = pinky) of h put in configuration o
Straighten(h, k, o) ==
  LET mcp == LM(h, finger_joints[k][1])
  IN  [h EXCEPT ![finger_joints[k][2] + 1] =
                  <<mcp[1] + o[1][1], mcp[2] + o[1][2], mcp[3]>>,
                ![finger_joints[k][3] + 1] =
                  <<mcp[1] + o[2][1], mcp[2] + o[2][2], mcp[3]>>]

StraightenHands == Shapes \cup PinchVariants \cup {TestOneFinger, TestTwoFingers}

StraightenInit ==
  /\ hand \in StraightenHands
  /\ result = NoResult
  /\ prev_hand_center = <<>>
  /\ calls = <<>>
  /\ LoopIdle

CountStraightened ==
  /\ result = NoResult
  /\ \E k \in 1..4, o \in StraightOffsets :
       \E h2 \in {Straighten(hand, k, o)} :
         result' = [done           |-> TRUE,
                    finger         |-> k,
                    count          |-> count_extended_fingers(hand),
                    straightened   |-> h2,
                    count_straight |-> count_extended_fingers(h2)]
  /\ UNCHANGED <<hand, prev_hand_center, calls, loopVars>>

StraightenNext == CountStraightened

StraightenSpec == StraightenInit /\ [][StraightenNext]_vars

(***************************************************************************)
(* Spec: the frame loop of demo.main.  Each frame the hand tracker yields  *)
(* no hand or one hand of LoopHands, and time.time() has advanced by one   *)
(* of Deltas.  robot.send_command returns, or raises (SerialRobot with the *)
(* port not open), which ends the loop.  The loop also ends when a frame   *)
(* cannot be read or 'q' is pressed.  frames records every processed       *)
(* frame; the model stops after MaxFrames frames.                          *)
(***************************************************************************)
MaxFrames == 3
StartTime == 10

Deltas == {1, 5, 6}

ThreeShape == Shape(FALSE, <<"up", "up", "up", "curl">>)

LoopHands ==
  {TwoShape, Translate(TwoShape, <<8, 0>>), ThreeShape}

\* tracker.process_frame(frame): the list of hands, empty or one hand
FrameInputs == {<<>>} \cup {<<h>> : h \in LoopHands}

\* cfg['gestures'] of config/example_config.yaml, empty when there is none
Configs ==
  {<<>>, [g \in {"two", "three"} |-> "relay:17:on"]}

\* the command sent for current_gesture
Command(table, current_gesture) ==
  IF current_gesture \in DOMAIN table THEN table[current_gesture]
  ELSE current_gesture

\* mutant: the change test compares the mapped commands
ShouldSendCommandChanged(gesture, current_gesture, t, lg, ls) ==
  /\ gesture # None
  /\ (t - ls) > MinInterval
  /\ Command(cfg, current_gesture) # Command(cfg, lg)

\* mutant: the interval gate admits a frame exactly MinInterval after the
\* last send
ShouldSendAtInterval(gesture, current_gesture, t, lg, ls) ==
  /\ gesture # None
  /\ (t - ls) >= MinInterval
  /\ current_gesture # lg

\* mutant: no interval gate
ShouldSendNoGate(gesture, current_gesture, t, lg, ls) ==
  /\ gesture # None
  /\ current_gesture # lg

\* mutant: no change test
ShouldSendNoChangeTest(gesture, current_gesture, t, lg, ls) ==
  /\ gesture # None
  /\ (t - ls) > MinInterval

\* robot.send_command is called: lg, ls are last_gesture and last_sent
ShouldSend(gesture, current_gesture, t, lg, ls) ==
  /\ gesture # None
  /\ (t - ls) > MinInterval
  /\ current_gesture # lg

\* mutant: last_gesture and last_sent are assigned before send_command is
\* called
DebounceBeforeSend(send, ok, current_gesture, t, lg, ls) ==
  IF send THEN <<current_gesture, t>> ELSE <<lg, ls>>

\* mutant: last_sent is assigned in every frame of the send branch that does
\* not send, so that the interval restarts
DebounceRestartsInterval(send, ok, current_gesture, t, lg, ls) ==
  IF send /\ ok THEN <<current_gesture, t>>
  ELSE IF current_gesture # None /\ ~send THEN <<lg, t>> ELSE <<lg, ls>>

\* last_gesture and last_sent after the frame: assigned once send_command
\* has returned
DebounceAfter(send, ok, current_gesture, t, lg, ls) ==
  IF send /\ ok THEN <<current_gesture, t>> ELSE <<lg, ls>>

\* mutant: an exception of send_command is caught inside the loop
ContinuesAfterFailure(send, ok) == TRUE

\* the loop goes on to the next frame: an exception of send_command leaves
\* the while loop for the handler around it
Continues(send, ok) == send => ok

\* mutant: the tracker is reset only by a frame past the interval
ResetsTrackerPastInterval(gesture, t, ls) ==
  /\ (t - ls) > MinInterval
  /\ gesture = None

\* the elif branch: the send branch is not taken and there is no gesture
ResetsTracker(gesture, t, ls) ==
  /\ ~(gesture # None /\ (t - ls) > MinInterval)
  /\ gesture = None

Init ==
  /\ prev_hand_center = <<>>
  /\ last_gesture = None
  /\ last_sent = 0
  /\ now = StartTime
  /\ running = TRUE
  /\ cfg \in Configs
  /\ frames = <<>>
  /\ calls = <<>>
  /\ PureIdle

\* what the frame computes from the hands found: the gesture dict, and under
\* prev the tracker's slot after the detection
FrameInfo(prev, hands) ==
  IF hands # <<>> THEN detect_gesture_with_direction(prev, hands[1])
  ELSE [gesture |-> None, direction |-> None, combined |-> None, prev |-> prev]

Frame ==
  /\ running
  /\ Len(frames) < MaxFrames
  /\ \E hands \in FrameInputs :
       \E info \in {FrameInfo(prev_hand_center, hands)}, d \in Deltas,
          ok \in BOOLEAN :
         LET t       == now + d
             current == IF info.combined # None THEN info.combined
                        ELSE info.gesture
             send    == ShouldSend(info.gesture, current, t, last_gesture,
                                   last_sent)
         IN  /\ (ok \/ send)
             /\ now' = t
             /\ last_gesture' =
                  DebounceAfter(send, ok, current, t, last_gesture, last_sent)[1]
             /\ last_sent' =
                  DebounceAfter(send, ok, current, t, last_gesture, last_sent)[2]
             /\ running' = Continues(send, ok)
             /\ prev_hand_center' =
                  IF ResetsTracker(info.gesture, t, last_sent)
                  THEN reset_movement_tracking
                  ELSE info.prev
             /\ frames' = Append(frames,
                  [hands     |-> hands,
                   t         |-> t,
                   gesture   |-> info.gesture,
                   direction |-> info.direction,
                   combined  |-> info.combined,
                   sent      |-> send,
                   cmd       |-> IF send THEN Command(cfg, current) ELSE None,
                   returned  |-> send /\ ok])
             /\ UNCHANGED <<cfg, calls, pureVars>>

\* the frame cannot be read, or 'q' is pressed
LoopExit ==
  /\ running
  /\ running' = FALSE
  /\ UNCHANGED <<prev_hand_center, last_gesture, last_sent, now, cfg, frames,
                 calls, pureVars>>

Next == Frame \/ LoopExit

Spec == Init /\ [][Next]_vars

(***************************************************************************)
(* LiveSpec: the frame loop without an end.  The loop reads its timestamps *)
(* only in (now - last_sent) > 0.5, so they are kept relative to last_sent *)
(* (last_sent is 0 throughout) and clipped one tick past MinInterval.      *)
(* frames keeps the last two frames.  Frames keep arriving while the loop  *)
(* runs, each with a later timestamp: weak fairness of LiveFrame.          *)
(***************************************************************************)
Clip(elapsed) ==
  IF elapsed > MinInterval THEN MinInterval + 1 ELSE elapsed

LastFrames(s) == IF Len(s) > 2 THEN Tail(s) ELSE s

LiveInit ==
  /\ prev_hand_center = <<>>
  /\ last_gesture = None
  /\ last_sent = 0
  /\ now = Clip(StartTime)
  /\ running = TRUE
  /\ cfg \in Configs
  /\ frames = <<>>
  /\ calls = <<>>
  /\ PureIdle

LiveFrame ==
  /\ running
  /\ \E hands \in FrameInputs :
       \E info \in {FrameInfo(prev_hand_center, hands)}, d \in Deltas,
          ok \in BOOLEAN :
         LET t       == now + d
             current == IF info.combined # None THEN info.combined
                        ELSE info.gesture
             send    == ShouldSend(info.gesture, current, t, last_gesture,
                                   last_sent)
             after   == DebounceAfter(send, ok, current, t, last_gesture,
                                      last_sent)
         IN  /\ (ok \/ send)
             /\ last_gesture' = after[1]
             /\ last_sent' = 0
             /\ now' = Clip(t - after[2])
             /\ running' = Continues(send, ok)
             /\ prev_hand_center' =
                  IF ResetsTracker(info.gesture, t, last_sent)
                  THEN reset_movement_tracking
                  ELSE info.prev
             /\ frames' = LastFrames(Append(frames,
                  [hands     |-> hands,
                   t         |-> Clip(t),
                   gesture   |-> info.gesture,
                   direction |-> info.direction,
                   combined  |-> info.combined,
                   sent      |-> send,
                   cmd       |-> IF send THEN Command(cfg, current) ELSE None,
                   returned  |-> send /\ ok]))
             /\ UNCHANGED <<cfg, calls, pureVars>>

LiveNext == LiveFrame \/ LoopExit

LiveSpec == LiveInit /\ [][LiveNext]_vars /\ WF_vars(LiveFrame)

(***************************************************************************)
(* Claims on the pure functions (PureSpec)                                 *)
(***************************************************************************)

\* C1 (as claimed): for every landmark list shorter than 21, is_pinch,
\* is_fist, is_open_hand and is_pointing_index return False,
\* count_extended_fingers returns 0 and the classifier returns None.
C1_ShortHandDefaults ==
  (result.done /\ Len(hand) < NumLandmarks) =>
    /\ ~result.is_pinch
    /\ ~result.is_fist
    /\ ~result.is_open_hand
    /\ ~result.is_pointing_index
    /\ result.count = 0
    /\ result.gesture = None

\* the squared planar distance thumb tip (4) - index tip (8) of the hand
PlanarTipGap2 ==
  (hand[5][1] - hand[9][1]) * (hand[5][1] - hand[9][1])
    + (hand[5][2] - hand[9][2]) * (hand[5][2] - hand[9][2])

\* C7: for every 21-landmark hand, is_pinch is True exactly when the planar
\* distance thumb tip - index tip is below 0.05, whatever the z coordinates,
\* and then the classifier returns "pinch" whatever the other landmarks are.
C7_PinchPreempts ==
  (result.done /\ Len(hand) = NumLandmarks) =>
    /\ result.is_pinch <=> (PlanarTipGap2 < 25)
    /\ (PlanarTipGap2 < 25) => result.gesture = "pinch"

\* C7 witness: a classified 21-landmark hand whose tips are planar-close but
\* apart in z, with three or more fingers extended, classified "pinch".
C7_Witness ==
  /\ result.done
  /\ Len(hand) = NumLandmarks
  /\ PlanarTipGap2 < 25
  /\ PlanarTipGap2 > 0
  /\ hand[5][3] # hand[9][3]
  /\ result.count >= 3
  /\ result.gesture = "pinch"

(***************************************************************************)
(* Claims on the direction tracker (TrackerSpec)                           *)
(***************************************************************************)
IsDetect(c) == c.op = "detect_movement_direction"

\* the displacement of the center of c's landmark list from the center
\* stored before the call, times both landmark counts
CallDx(c) ==
  LET cur == get_hand_center(c.landmarks)
  IN  cur[1] * c.before[3] - c.before[1] * cur[3]

CallDy(c) ==
  LET cur == get_hand_center(c.landmarks)
  IN  cur[2] * c.before[3] - c.before[2] * cur[3]

CallShort(c) ==
  LET den == c.before[3] * get_hand_center(c.landmarks)[3]
  IN  CallDx(c) * CallDx(c) + CallDy(c) * CallDy(c) < 25 * den * den

CallMoved(c) == IsDetect(c) /\ c.before # <<>>

\* C8: with a stored previous center, a displacement of at least the
\* movement threshold returns right if |dx| > |dy| and dx > 0, left if
\* |dx| > |dy| and dx <= 0, otherwise down if dy > 0 and up if dy <= 0 (ties
\* take the vertical branch); a shorter displacement returns no direction.
C8_DirectionRule ==
  \A i \in 1..Len(calls) :
    CallMoved(calls[i]) =>
      LET dx == CallDx(calls[i])
          dy == CallDy(calls[i])
      IN  calls[i].ret =
            (CASE CallShort(calls[i])              -> None
               [] ~CallShort(calls[i]) /\ Abs(dx) > Abs(dy) /\ dx > 0  -> "right"
               [] ~CallShort(calls[i]) /\ Abs(dx) > Abs(dy) /\ dx <= 0 -> "left"
               [] ~CallShort(calls[i]) /\ Abs(dx) <= Abs(dy) /\ dy > 0 -> "down"
               [] OTHER                            -> "up")

\* C8 witness: a call whose displacement is a tie |dx| = |dy| beyond the
\* threshold, with dy < 0, returned "up".
C8_Witness ==
  \E i \in 1..Len(calls) :
    /\ CallMoved(calls[i])
    /\ ~CallShort(calls[i])
    /\ Abs(CallDx(calls[i])) = Abs(CallDy(calls[i]))
    /\ CallDy(calls[i]) < 0
    /\ calls[i].ret = "up"

\* C9: whenever the previous-center slot is unset, the next call of
\* detect_movement_direction returns no direction and stores the center of
\* the hand it was given; reset_movement_tracking leaves the slot unset.
C9_FirstObservation ==
  /\ \A i \in 1..Len(calls) :
       /\ (IsDetect(calls[i]) /\ calls[i].before = <<>>) =>
            /\ calls[i].ret = None
            /\ calls[i].after = get_hand_center(calls[i].landmarks)
       /\ ~IsDetect(calls[i]) => calls[i].after = <<>>
  /\ calls # <<>> => prev_hand_center = calls[Len(calls)].after

\* C9 witness: a center was stored, the tracker was reset, and the next call,
\* with a hand far from the stored center, returned no direction and stored
\* the hand's center.
C9_Witness ==
  /\ Len(calls) = 3
  /\ IsDetect(calls[1])
  /\ ~IsDetect(calls[2])
  /\ calls[2].before # <<>>
  /\ IsDetect(calls[3])
  /\ calls[3].landmarks # calls[1].landmarks
  /\ Len(calls[3].landmarks) = NumLandmarks
  /\ Len(calls[1].landmarks) = NumLandmarks
  /\ calls[3].landmarks[1][1] - calls[1].landmarks[1][1] >= 8
  /\ calls[3].ret = None
  /\ prev_hand_center = get_hand_center(calls[3].landmarks)

\* C10: of two successive calls of detect_movement_direction with the same
\* landmark list, the second returns no direction and leaves the stored
\* center unchanged; when the tracker was unset before the first, the first
\* returns no direction too.
C10_RepeatIsNone ==
  \A i \in 1..(Len(calls) - 1) :
    (IsDetect(calls[i]) /\ IsDetect(calls[i + 1])
       /\ calls[i].landmarks = calls[i + 1].landmarks) =>
      /\ calls[i + 1].ret = None
      /\ calls[i + 1].after = calls[i].after
      /\ calls[i].before = <<>> => calls[i].ret = None

\* C10 witness: the first of two successive calls with the same hand returned
\* a direction, the second returned none.
C10_Witness ==
  \E i \in 1..(Len(calls) - 1) :
    /\ IsDetect(calls[i])
    /\ IsDetect(calls[i + 1])
    /\ calls[i].landmarks = calls[i + 1].landmarks
    /\ calls[i].ret = "left"
    /\ calls[i + 1].ret = None

\* C17: after every call of detect_movement_direction the stored center is
\* the center of the landmark list just passed, also when the displacement
\* was below the threshold and no direction was returned; the next call
\* measures its displacement from it.
C17_CenterAlwaysStored ==
  /\ \A i \in 1..Len(calls) :
       IsDetect(calls[i]) =>
         calls[i].after = get_hand_center(calls[i].landmarks)
  /\ \A i \in 1..(Len(calls) - 1) :
       (IsDetect(calls[i]) /\ IsDetect(calls[i + 1])) =>
         calls[i + 1].before = get_hand_center(calls[i].landmarks)
  /\ (Len(calls) > 0 /\ IsDetect(calls[Len(calls)])) =>
       prev_hand_center = get_hand_center(calls[Len(calls)].landmarks)

\* C17 witness: a hand moved by 0.03, below the threshold, no direction was
\* returned and the center was stored; the next call, 0.05 further right,
\* returned right.
C17_Witness ==
  \E i \in 1..(Len(calls) - 1) :
    /\ CallMoved(calls[i])
    /\ CallShort(calls[i])
    /\ CallDx(calls[i]) > 0
    /\ calls[i].ret = None
    /\ calls[i].after = get_hand_center(calls[i].landmarks)
    /\ calls[i].after # calls[i].before
    /\ IsDetect(calls[i + 1])
    /\ calls[i + 1].before = calls[i].after
    /\ ~CallShort(calls[i + 1])
    /\ calls[i + 1].ret = "right"

(***************************************************************************)
(* Claims on the dispatch loop (Spec), stated on the history of frames     *)
(***************************************************************************)
NFrames == Len(frames)

\* the frames before frame i in which send was called
SendsBefore(i) == {j \in 1..(i - 1) : frames[j].sent}

\* the last frame before frame i in which send was called, 0 when none
PrevSend(i) ==
  IF SendsBefore(i) = {} THEN 0
  ELSE CHOOSE j \in SendsBefore(i) : \A k \in SendsBefore(i) : k <= j

\* the timestamp of the last emission before frame i; 0.0 when none
PrevSendTime(i) == IF PrevSend(i) = 0 THEN 0 ELSE frames[PrevSend(i)].t

\* the combined gesture last emitted before frame i; None when none
PrevSendGesture(i) ==
  IF PrevSend(i) = 0 THEN None ELSE frames[PrevSend(i)].combined

\* G was sent in frame i, frames i+1 .. k-1 (one or more) have no hand, and
\* frame k carries G again, more than MinInterval after frame i
Reappears(i, k) ==
  /\ i + 1 < k
  /\ frames[i].sent
  /\ \A j \in (i + 1)..(k - 1) : frames[j].gesture = None
  /\ frames[k].combined = frames[i].combined
  /\ frames[k].t - frames[i].t > 5

\* C2 (as claimed): when G was emitted, one or more frames with no hand
\* follow, and G appears again more than the minimum interval after the last
\* emission, G is emitted again.
C2_ReappearanceReemits ==
  \A i \in 1..NFrames, k \in 1..NFrames :
    Reappears(i, k) => frames[k].sent

\* C2 (amended): when G was emitted, one or more frames with no hand follow,
\* and G appears again more than the minimum interval after the last
\* emission, G is not emitted again: the frames with no hand leave the last
\* emitted gesture in place, and the reappearance is a repeat.
C2_ReappearanceSuppressed ==
  \A i \in 1..NFrames, k \in 1..NFrames :
    Reappears(i, k) => ~frames[k].sent

\* C2 witness: G reappeared after an absence, past the interval, and was not
\* sent.
C2_Witness ==
  \E i \in 1..NFrames, k \in 1..NFrames :
    Reappears(i, k) /\ ~frames[k].sent /\ frames[k].combined = "two"

\* C3: any two calls of send are separated by at least the minimum interval
\* of frame timestamps, whether the combined gestures are equal or distinct.
C3_SendsSpaced ==
  \A i \in 1..NFrames, j \in 1..NFrames :
    (i < j /\ frames[i].sent /\ frames[j].sent) =>
      frames[j].t - frames[i].t >= 5

\* C3 witness: two sends of distinct gestures, and between them a frame with
\* a gesture other than the one last sent, inside the interval, not sent.
C3_Witness ==
  \E i \in 1..NFrames, k \in 1..NFrames, j \in 1..NFrames :
    /\ i < k /\ k < j
    /\ frames[i].sent /\ frames[j].sent
    /\ frames[k].combined # None
    /\ frames[k].combined # frames[i].combined
    /\ frames[k].t - frames[i].t < 5
    /\ ~frames[k].sent

\* frames i, i+1 carry two then three within 0.1 s, nothing was sent before
TwoThenThree(i) ==
  /\ i + 1 <= NFrames
  /\ SendsBefore(i) = {}
  /\ frames[i].combined = "two"
  /\ frames[i + 1].combined = "three"
  /\ frames[i + 1].t - frames[i].t <= 1

\* C4 (as claimed): from a fresh debounce state, two then three on two frames
\* within 0.1 s of each other are both emitted.
C4_BothEmitted ==
  \A i \in 1..NFrames :
    TwoThenThree(i) => (frames[i].sent /\ frames[i + 1].sent)

\* C4 (amended): from a fresh debounce state, of two then three on two frames
\* within 0.1 s of each other only two is emitted; three is suppressed by the
\* interval gate.
C4_OnlyFirstEmitted ==
  \A i \in 1..NFrames :
    TwoThenThree(i) => (frames[i].sent /\ ~frames[i + 1].sent)

\* C4 witness: two then three within 0.1 s from a fresh state, three not sent
C4_Witness ==
  \E i \in 1..NFrames :
    TwoThenThree(i) /\ frames[i].returned /\ ~frames[i + 1].sent

\* C5 (as claimed): a frame triggers a send exactly when its combined gesture
\* is not none, differs from the last emitted one (or none was emitted), and
\* timestamp - lastEmitTimestamp >= minInterval.
C5_SendIffAtLeastInterval ==
  \A i \in 1..NFrames :
    frames[i].sent <=>
      /\ frames[i].combined # None
      /\ (PrevSend(i) = 0 \/ frames[i].combined # PrevSendGesture(i))
      /\ frames[i].t - PrevSendTime(i) >= 5

\* C5 (amended): a frame triggers a send exactly when its combined gesture is
\* not none, differs from the last emitted one (or none was emitted), and
\* timestamp - lastEmitTimestamp > minInterval; a frame exactly minInterval
\* after the last emission does not emit.
C5_SendIffBeyondInterval ==
  \A i \in 1..NFrames :
    frames[i].sent <=>
      /\ frames[i].combined # None
      /\ (PrevSend(i) = 0 \/ frames[i].combined # PrevSendGesture(i))
      /\ frames[i].t - PrevSendTime(i) > 5

\* C5 witness: a frame exactly minInterval after the last emission, with a
\* different gesture, not sent; and a later frame that was sent.
C5_Witness ==
  \E i \in 1..NFrames, j \in 1..NFrames :
    /\ PrevSend(i) # 0
    /\ frames[i].combined # None
    /\ frames[i].combined # PrevSendGesture(i)
    /\ frames[i].t - PrevSendTime(i) = 5
    /\ ~frames[i].sent
    /\ i < j
    /\ frames[j].sent

\* frames i..k all carry the same combined gesture, not none, and nothing
\* was sent before frame i
FreshRun(i, k) ==
  /\ i <= k
  /\ SendsBefore(i) = {}
  /\ frames[i].combined # None
  /\ \A j \in i..k : frames[j].combined = frames[i].combined

\* C6: in a run of consecutive frames with the same combined gesture, not
\* none, starting from a fresh debounce state, exactly one send occurs, on
\* the first frame of the run, however long the run is.
C6_OneSendPerRun ==
  \A i \in 1..NFrames, k \in 1..NFrames :
    FreshRun(i, k) =>
      /\ frames[i].sent
      /\ \A j \in (i + 1)..k : ~frames[j].sent

\* C6 witness: a run of three frames lasting more than the interval, sent
\* once.
C6_Witness ==
  \E i \in 1..NFrames, k \in 1..NFrames :
    /\ FreshRun(i, k)
    /\ k >= i + 2
    /\ frames[k].t - frames[i].t > 5
    /\ frames[i].sent
    /\ \A j \in (i + 1)..k : ~frames[j].sent

\* C14: every string passed to send_command is the combined gesture of the
\* frame, or the value the configuration maps that exact combined gesture to;
\* the change test compares combined gestures, so a gesture past the interval
\* that differs from the last emitted one is sent also when both map to the
\* same command.
C14_SentString ==
  \A i \in 1..NFrames :
    /\ frames[i].sent =>
         /\ frames[i].combined # None
         /\ frames[i].combined \in DOMAIN cfg =>
              frames[i].cmd = cfg[frames[i].combined]
         /\ frames[i].combined \notin DOMAIN cfg =>
              frames[i].cmd = frames[i].combined
    /\ (/\ PrevSend(i) # 0
        /\ frames[i].combined # None
        /\ frames[i].combined # PrevSendGesture(i)
        /\ frames[i].t - PrevSendTime(i) > 5) => frames[i].sent

\* C14 witness: two and three are mapped to the same command, and both were
\* sent; a gesture with a direction suffix, not a key, was sent raw.
C14_Witness ==
  \E i \in 1..NFrames, j \in 1..NFrames, k \in 1..NFrames :
    /\ i = PrevSend(j)
    /\ j = PrevSend(k)
    /\ frames[i].combined = "two"
    /\ frames[j].combined = "three"
    /\ frames[i].cmd = "relay:17:on"
    /\ frames[j].cmd = "relay:17:on"
    /\ frames[k].sent
    /\ frames[k].cmd = "two_right"

\* C15: a frame with no detected hand resets the tracker in that same frame,
\* also inside the debounce interval; the first frame with a hand after a
\* frame with no hand reports no direction and a combined gesture without a
\* direction suffix.
C15_NoHandResets ==
  /\ (NFrames > 0 /\ frames[NFrames].hands = <<>>) => prev_hand_center = <<>>
  /\ \A i \in 2..NFrames :
       (frames[i - 1].hands = <<>> /\ frames[i].hands # <<>>) =>
         /\ frames[i].direction = None
         /\ frames[i].combined = frames[i].gesture

\* C15 witness: a hand was seen, then no hand inside the debounce interval,
\* then the same hand 0.08 to the right, reported without a direction.
C15_Witness ==
  /\ NFrames = 3
  /\ frames[1].hands = <<TwoShape>>
  /\ frames[1].sent
  /\ frames[2].hands = <<>>
  /\ frames[2].t - frames[1].t = 1
  /\ frames[3].hands = <<Translate(TwoShape, <<8, 0>>)>>
  /\ frames[3].direction = None
  /\ frames[3].combined = "two"

\* the frames in which send_command was called and returned
Returned == {j \in 1..NFrames : frames[j].returned}

LastReturned == CHOOSE j \in Returned : \A k \in Returned : k <= j

\* C16: last_gesture and last_sent change only in a frame in which
\* send_command was called and returned, and then become the combined gesture
\* and the timestamp of that frame: they are those of the last such frame,
\* and None and 0.0 while there is none.
C16_DebounceState ==
  IF Returned = {} THEN last_gesture = None /\ last_sent = 0
  ELSE /\ last_gesture = frames[LastReturned].combined
       /\ last_sent = frames[LastReturned].t

\* C16 witness: two was emitted, a frame with three was suppressed by the
\* interval, and a send of three raised; the state is still that of two.
C16_Witness ==
  /\ NFrames = 3
  /\ frames[1].returned
  /\ frames[1].combined = "two"
  /\ frames[2].combined = "three"
  /\ ~frames[2].sent
  /\ frames[3].sent
  /\ ~frames[3].returned
  /\ last_gesture = "two"
  /\ last_sent = frames[1].t

\* C18: when send_command raises, the loop ends: the frame of the failed
\* send is the last one, no send is called after it, and the command that
\* failed is not recorded in last_gesture and last_sent.
C18_FailedSendIsFatal ==
  \A i \in 1..NFrames :
    (frames[i].sent /\ ~frames[i].returned) =>
      /\ i = NFrames
      /\ ~running
      /\ last_sent # frames[i].t
      /\ last_gesture = PrevSendGesture(i)
      /\ last_sent = PrevSendTime(i)

\* C18 witness: the first send raised, the loop has ended and nothing is
\* recorded as emitted.
C18_Witness ==
  /\ NFrames = 1
  /\ frames[1].sent
  /\ ~frames[1].returned
  /\ frames[1].cmd = "relay:17:on"
  /\ ~running
  /\ last_gesture = None
  /\ last_sent = 0

(***************************************************************************)
(* Claims on detect_gesture_with_direction (GestureDirSpec)                *)
(***************************************************************************)
IsGestureDir(c) == c.op = "detect_gesture_with_direction"

\* C11: detect_gesture_with_direction runs the classifier and the direction
\* tracker on every call, whatever the gesture (the tracker's slot is advanced
\* even for pinch or fist); its combined value is the gesture alone when the
\* direction is none, gesture_direction otherwise, and none when the gesture
\* is none.
C11_CombinedGesture ==
  \A i \in 1..Len(calls) :
    IsGestureDir(calls[i]) =>
      /\ calls[i].gesture = detect_gesture_with_handedness(calls[i].landmarks)
      /\ calls[i].ret =
           detect_movement_direction(calls[i].before, calls[i].landmarks).ret
      /\ calls[i].after = get_hand_center(calls[i].landmarks)
      /\ calls[i].ret = None => calls[i].combined = calls[i].gesture
      /\ calls[i].ret # None =>
           calls[i].combined = calls[i].gesture \o "_" \o calls[i].ret
      /\ calls[i].gesture = None => calls[i].combined = None

\* C11 witness: a pinch advanced the tracker's slot, then five, then five
\* shifted right by 0.1, which gave five_right.
C11_Witness ==
  /\ Len(calls) = 3
  /\ IsGestureDir(calls[1])
  /\ calls[1].gesture = "pinch"
  /\ calls[1].after # calls[1].before
  /\ IsGestureDir(calls[2])
  /\ calls[2].landmarks = FiveShape
  /\ calls[2].combined \in {"five", "five_left", "five_right"}
  /\ IsGestureDir(calls[3])
  /\ calls[3].landmarks = Translate(FiveShape, <<10, 0>>)
  /\ calls[3].combined = "five_right"

(***************************************************************************)
(* Claims on the finger count (PureSpec, StraightenSpec)                   *)
(***************************************************************************)
CountLabels == <<"fist", "one", "two", "three", "four", "five">>

\* C12: count_extended_fingers returns an integer in 0..5; for every hand
\* that is not a pinch the classifier returns the label fist, one, two,
\* three, four or five of that count; the classifier never returns none.
C12_CountAndLabel ==
  result.done =>
    /\ result.count \in 0..5
    /\ ~result.is_pinch => result.gesture = CountLabels[result.count + 1]
    /\ result.gesture \in {"pinch", "fist", "one", "two", "three", "four", "five"}

\* C12 witness: a hand that is not a pinch, with five fingers counted,
\* classified five.
C12_Witness ==
  /\ result.done
  /\ Len(hand) = NumLandmarks
  /\ ~result.is_pinch
  /\ result.count = 5
  /\ result.gesture = "five"

\* finger k of h is in one of the straight configurations
IsStraight(h, k) ==
  LET mcp == h[finger_joints[k][1] + 1]
      pip == h[finger_joints[k][2] + 1]
      tip == h[finger_joints[k][3] + 1]
  IN  <<<<pip[1] - mcp[1], pip[2] - mcp[2]>>,
        <<tip[1] - mcp[1], tip[2] - mcp[2]>>>> \in StraightOffsets

NumStraight(h) == Cardinality({k \in 1..4 : IsStraight(h, k)})

\* C13: replacing the MCP/PIP/TIP landmarks of one non-thumb finger by a
\* straight configuration, all other landmarks unchanged, never decreases
\* count_extended_fingers, and the count is at least the number of fingers in
\* such a configuration (the one-finger test hand gives >= 1, the two-finger
\* test hand >= 2).
C13_StraightenMonotonic ==
  result.done =>
    /\ result.count_straight >= result.count
    /\ result.count_straight >= NumStraight(result.straightened)
    /\ result.count >= NumStraight(hand)
    /\ hand = TestOneFinger => result.count >= 1
    /\ hand = TestTwoFingers => result.count >= 2

\* C13 witness: a hand with one finger extended had a curled finger laid flat
\* and straight, its tip 0.04 below the MCP, and the count rose to two.
C13_Witness ==
  /\ result.done
  /\ result.count = 1
  /\ result.count_straight = 2
  /\ NumStraight(hand) = 0
  /\ NumStraight(result.straightened) = 1
  /\ LET m == result.straightened[finger_joints[result.finger][1] + 1]
         t == result.straightened[finger_joints[result.finger][3] + 1]
     IN  t[2] = m[2] + 4

(***************************************************************************)
(* Claims on the dispatch loop without an end (LiveSpec)                   *)
(***************************************************************************)
LiveGestures ==
  {"two", "three", "two_left", "two_right", "three_left", "three_right"}

LastFrame == frames[Len(frames)]

\* the last frame carried G, the loop runs, and G is not the last emitted
\* gesture
Pending(G) ==
  /\ running
  /\ frames # <<>>
  /\ LastFrame.combined = G
  /\ last_gesture # G

\* send_command was called with G in the last frame; or the run of frames
\* with G has ended, or the loop has
SentOrRunOver(G) ==
  \/ frames # <<>> /\ LastFrame.combined = G /\ LastFrame.sent
  \/ frames # <<>> /\ LastFrame.combined # G
  \/ ~running

\* C19: if from some frame on every frame carries the same combined gesture
\* G, not none and not the last emitted gesture, and frames keep arriving
\* with growing timestamps, then G is eventually sent; and it is sent once:
\* a frame that carries the last emitted gesture does not send.
C19_EventuallySentOnce ==
  /\ \A G \in LiveGestures : Pending(G) ~> SentOrRunOver(G)
  /\ [][(frames' # frames /\ frames'[Len(frames')].combined = last_gesture)
          => ~frames'[Len(frames')].sent]_vars

\* C19 witness: a frame with three was held back by the interval, the next
\* frame with three sent it, and three is now the last emitted gesture.
C19_Witness ==
  /\ Len(frames) = 2
  /\ frames[1].combined = "three"
  /\ ~frames[1].sent
  /\ frames[2].combined = "three"
  /\ frames[2].sent
  /\ frames[2].returned
  /\ last_gesture = "three"
  /\ running

=============================================================================
